---- MODULE Spec2Model ----
(***************************************************************************)
(* Conway's Game of Life with the "second-order changes" metric            *)
(* (src/main.py): the update rule, the random soups, the metric and the    *)
(* frame loop that simulate_conway hands to FuncAnimation.                  *)
(*                                                                         *)
(* A grid is a sequence of rows, each a sequence of cells.  Probabilities  *)
(* and the standard deviation are held in tenths (One stands for 1.0), so  *)
(* that the sign tests numpy makes on the weights are exact.                *)
(***************************************************************************)
EXTENDS Integers, Sequences, FiniteSets, TLC

VARIABLES phase, frames, soup, soup0, second_order_changes, frame_seq,
          fn, args, ret

\* phase                 where the animation of simulate_conway is: "created"
\*                       (constructed, nothing drawn), "running", "stopped";
\*                       "call" / "returned" when one function is called alone
\* frames                simulate_conway's frames
\* soup                  soup[0], the grid update_frame reads and replaces
\* soup0                 the grid create_random_soup gave simulate_conway
\* second_order_changes  the list update_frame appends to
\* frame_seq             how many items of range(frames) the timer has drawn
\* fn, args, ret         the function called alone, its arguments, its result
vars == <<phase, frames, soup, soup0, second_order_changes, frame_seq,
          fn, args, ret>>

---------------------------------------------------------------------------
(* Bounds of the model *)

\* a grid has at most MaxSide rows and at most MaxSide columns
MaxSide == 3
\* a grid of the simulation has at most MaxCells cells (rows * cols)
MaxCells == 9
\* simulate_conway is started with 1..MaxFrames frames
MaxFrames == 2
\* a grid asked of create_random_soup directly has at most MaxNoiseCells cells
MaxNoiseCells == 4

Shapes(n) == {s \in (1..MaxSide) \X (1..MaxSide) : s[1] * s[2] <= n}

---------------------------------------------------------------------------
(* Values: what a call gives back *)

Return(v) == [ok |-> TRUE, val |-> v]
Raise(e) == [ok |-> FALSE, err |-> e]

Rows(g) == Len(g)
Cols(g) == Len(g[1])
Shape(g) == <<Rows(g), Cols(g)>>

Full(size, v) == [r \in 1..size[1] |-> [c \in 1..size[2] |-> v]]

---------------------------------------------------------------------------
(* update *)

K == << <<1, 1, 1>>,
        <<1, 0, 1>>,
        <<1, 1, 1>> >>

\* mode='constant', cval=0: what convolve reads outside the grid
cval == 0

PaddedWithOnes(g, r, c) ==
    IF r \in 1..Rows(g) /\ c \in 1..Cols(g) THEN g[r][c] ELSE 1
Padded(g, r, c) ==
    IF r \in 1..Rows(g) /\ c \in 1..Cols(g) THEN g[r][c] ELSE cval

\* One output cell of scipy.ndimage.convolve with the 3x3 kernel centred on
\* the cell: the sum over the kernel entries (i, j), k = 3*(i-1) + j, of
\* K[i][j] * input[r + 2 - i][c + 2 - j] (a convolution mirrors the kernel).
RECURSIVE convolve(_, _, _, _)
convolve(g, r, c, k) ==
    IF k = 0 THEN 0
    ELSE LET i == ((k - 1) \div Len(K)) + 1
             j == ((k - 1) % Len(K)) + 1
         IN  K[i][j] * Padded(g, r + 2 - i, c + 2 - j) + convolve(g, r, c, k - 1)

N(g) == [r \in 1..Rows(g) |->
            [c \in 1..Cols(g) |-> convolve(g, r, c, Len(K) * Len(K))]]

ruleB2(n, cell) == IF (n = 3) \/ (n = 2) THEN 1 ELSE 0
rule(n, cell) == IF (n = 3) \/ ((n = 2) /\ (cell = 1)) THEN 1 ELSE 0

update(g) ==
    LET n == N(g)
    IN  [r \in 1..Rows(g) |-> [c \in 1..Cols(g) |-> rule(n[r][c], g[r][c])]]

RECURSIVE IterUpdate(_, _)
IterUpdate(g, k) == IF k = 0 THEN g ELSE update(IterUpdate(g, k - 1))

---------------------------------------------------------------------------
(* create_random_soup *)

One == 10

\* np.random.choice(a, size, p): the values a draw can give.  numpy rejects
\* a negative weight; a value is drawn only if its weight is positive.
choiceDrawsZeroWeight(a, p) == {a[i] : i \in {j \in 1..Len(a) : p[j] >= 0}}
choiceDraws(a, p) == {a[i] : i \in {j \in 1..Len(a) : p[j] > 0}}

choice(a, size, p) ==
    IF \E i \in 1..Len(p) : p[i] < 0
    THEN {Raise("ValueError")}
    ELSE {Return(g) : g \in [1..size[1] -> [1..size[2] -> choiceDraws(a, p)]]}

\* np.random.normal(loc=0.5, scale=std) > 0.5, as an int: numpy rejects a
\* negative scale, a scale of zero draws the mean itself (never above it),
\* a positive scale draws on either side.
normalAbove(std) == IF std = 0 THEN {0} ELSE {0, 1}

\* soup[soup == 2] = 1
saltKept(g) == g
saltToOne(g) ==
    [r \in 1..Rows(g) |-> [c \in 1..Cols(g) |-> IF g[r][c] = 2 THEN 1 ELSE g[r][c]]]

create_random_soup(size, noise_type, p, std, salt_vs_pepper) ==
    IF noise_type = "uniform"
    THEN choice(<<0, 1>>, size, <<One - p, p>>)
    ELSE IF noise_type = "gaussian"
    THEN IF std < 0
         THEN {Raise("ValueError")}
         ELSE {Return(g) : g \in [1..size[1] -> [1..size[2] -> normalAbove(std)]]}
    ELSE IF noise_type = "salt_and_pepper"
    THEN {IF d.ok THEN Return(saltToOne(d.val)) ELSE d :
            d \in choice(<<0, 1, 2>>, size,
                         <<salt_vs_pepper * (One - p),
                           (One - salt_vs_pepper) * (One - p),
                           One * p>>)}
    ELSE {Raise("ValueError")}

---------------------------------------------------------------------------
(* calculate_second_order_changes *)

Abs(x) == IF x < 0 THEN -x ELSE x
Larger(a, b) == IF a > b THEN a ELSE b

\* numpy's elementwise a - b: the shapes must agree in each dimension or one
\* of them be 1, and a dimension of 1 is repeated along the other's.
Broadcastable(a, b) ==
    /\ Rows(a) = Rows(b) \/ Rows(a) = 1 \/ Rows(b) = 1
    /\ Cols(a) = Cols(b) \/ Cols(a) = 1 \/ Cols(b) = 1

At(a, r, c) == a[IF Rows(a) = 1 THEN 1 ELSE r][IF Cols(a) = 1 THEN 1 ELSE c]

AbsDiff(a, b) ==
    [r \in 1..Larger(Rows(a), Rows(b)) |->
        [c \in 1..Larger(Cols(a), Cols(b)) |-> Abs(At(a, r, c) - At(b, r, c))]]

RECURSIVE SumRow(_, _)
SumRow(row, c) == IF c = 0 THEN 0 ELSE row[c] + SumRow(row, c - 1)

RECURSIVE SumRows(_, _)
SumRows(g, r) == IF r = 0 THEN 0 ELSE SumRow(g[r], Len(g[r])) + SumRows(g, r - 1)

sum(g) == SumRows(g, Rows(g))

first_order_changes(g, updated_soup) == AbsDiff(g, updated_soup)

updated_first_order(g, updated_soup) == update(first_order_changes(g, updated_soup))

second_order_matrix(g, updated_soup) ==
    AbsDiff(first_order_changes(g, updated_soup), updated_first_order(g, updated_soup))

calculate_second_order_changes(g, updated_soup) ==
    IF ~Broadcastable(g, updated_soup)
    THEN Raise("ValueError")
    ELSE Return(sum(second_order_matrix(g, updated_soup)))

---------------------------------------------------------------------------
(* update_frame and simulate_conway *)

NoCall == Raise("none")

clampedRaw(changes) == changes
clamped(changes) == Larger(changes, 1)

\* One call of update_frame(frame_num, img, soup, line, second_order_changes).
\* frame_num is not read.  The metric is taken and appended before the grid
\* is replaced; an exception of the metric would leave both as they were.
update_frame(frame_num) ==
    LET new_soup == update(soup)
        changes == calculate_second_order_changes(soup, new_soup)
    IN  /\ changes.ok
        /\ second_order_changes' = Append(second_order_changes, clamped(changes.val))
        /\ soup' = new_soup

\* simulate_conway(size, frames, speed) up to the construction of the
\* animation: a uniform soup with the default parameters (p = 0.5, std = 1.0,
\* salt_vs_pepper = 0.5), an empty list of sums, the frames not yet started.
simulate_conway ==
    /\ phase = "created"
    /\ frames \in 1..MaxFrames
    /\ \E size \in Shapes(MaxCells) :
         \E d \in create_random_soup(size, "uniform", One \div 2, One, One \div 2) :
            d.ok /\ soup = d.val
    /\ soup0 = soup
    /\ second_order_changes = << >>
    /\ frame_seq = 0
    /\ fn = "none" /\ args = << >> /\ ret = NoCall

\* FuncAnimation(fig, update_frame, frames=frames, repeat=False) is given no
\* init_func: when the figure is first drawn it draws the first item of the
\* frame sequence, range(frames), by a call of update_frame, and only then
\* starts the timer that steps through the sequence from its first item.
InitDraw ==
    /\ phase = "created"
    /\ update_frame(0)
    /\ phase' = "running"
    /\ UNCHANGED <<frames, soup0, frame_seq, fn, args, ret>>

\* A timer tick while range(frames) has an item left: it is drawn.
Step ==
    /\ phase = "running"
    /\ frame_seq < frames
    /\ update_frame(frame_seq)
    /\ frame_seq' = frame_seq + 1
    /\ UNCHANGED <<phase, frames, soup0, fn, args, ret>>

\* A timer tick when range(frames) is exhausted: repeat=False stops the
\* animation; update_frame is not called.
StopDrawsAgain ==
    /\ phase = "running"
    /\ frame_seq = frames
    /\ update_frame(frame_seq)
    /\ phase' = "stopped"
    /\ UNCHANGED <<frames, soup0, frame_seq, fn, args, ret>>

Stop ==
    /\ phase = "running"
    /\ frame_seq = frames
    /\ phase' = "stopped"
    /\ UNCHANGED <<frames, soup, soup0, second_order_changes, frame_seq, fn, args, ret>>

Init == simulate_conway

Next == InitDraw \/ Step \/ Stop

Spec == Init /\ [][Next]_vars

---------------------------------------------------------------------------
(* The functions called on their own *)

AllGrids(n) == UNION {[1..s[1] -> [1..s[2] -> {0, 1}]] : s \in Shapes(n)}

\* alive probabilities, standard deviations and salt ratios, in tenths,
\* inside, on the edge of and outside their domains
PValues == {-1, 0, One \div 2, One, One + One \div 2}
StdValues == {-One, 0, One}
SaltValues == {-1, 0, One \div 2, One, One + One \div 2}
NoiseTypes == {"uniform", "gaussian", "salt_and_pepper", "perlin"}

UpdateArgs == {[soup |-> g] : g \in AllGrids(MaxCells)}

CreateArgs ==
    [size : Shapes(MaxNoiseCells), noise_type : NoiseTypes, p : PValues,
     std : StdValues, salt_vs_pepper : SaltValues]

\* pairs of one shape (a grid with itself, with its successor), a grid with
\* the grids numpy can stretch to its shape, and the pairs of constant grids
\* of every two shapes
MetricArgs ==
    UNION {{[soup |-> g, updated_soup |-> h] :
              h \in {g, update(g), Full(<<1, 1>>, 1), Full(<<1, Cols(g)>>, 1),
                     Full(<<Rows(g), 1>>, 1)}} : g \in AllGrids(MaxCells)}
    \cup
    {[soup |-> Full(s, v), updated_soup |-> Full(t, w)] :
        s \in Shapes(MaxCells), t \in Shapes(MaxCells), v \in {0, 1}, w \in {0, 1}}

InitCall ==
    /\ phase = "call"
    /\ \/ fn = "update" /\ args \in UpdateArgs
       \/ fn = "create_random_soup" /\ args \in CreateArgs
       \/ fn = "calculate_second_order_changes" /\ args \in MetricArgs
    /\ ret = NoCall
    /\ frames = 0
    /\ soup = Full(<<1, 1>>, 0)
    /\ soup0 = soup
    /\ second_order_changes = << >>
    /\ frame_seq = 0

Returns(r) ==
    /\ ret' = r
    /\ phase' = "returned"
    /\ UNCHANGED <<frames, soup, soup0, second_order_changes, frame_seq, fn, args>>

CallUpdate ==
    /\ phase = "call" /\ fn = "update"
    /\ Returns(Return(update(args.soup)))

CallCreateRandomSoup ==
    /\ phase = "call" /\ fn = "create_random_soup"
    /\ \E r \in create_random_soup(args.size, args.noise_type, args.p, args.std,
                                   args.salt_vs_pepper) : Returns(r)

CallSecondOrderChanges ==
    /\ phase = "call" /\ fn = "calculate_second_order_changes"
    /\ Returns(calculate_second_order_changes(args.soup, args.updated_soup))

NextCall == CallUpdate \/ CallCreateRandomSoup \/ CallSecondOrderChanges

SpecCall == InitCall /\ [][NextCall]_vars

\* the simulation, or one of the functions on its own
InitAll == Init \/ InitCall

NextAll == InitDraw \/ Step \/ Stop \/ CallUpdate \/ CallCreateRandomSoup
              \/ CallSecondOrderChanges

SpecAll == InitAll /\ [][NextAll]_vars

---------------------------------------------------------------------------
(* Properties *)

SimPhases == {"created", "running", "stopped"}

Binary(g) == \A r \in 1..Rows(g) : \A c \in 1..Cols(g) : g[r][c] \in {0, 1}

AllDead(g) == \A r \in 1..Rows(g) : \A c \in 1..Cols(g) : g[r][c] = 0

\* the alive cells of g among the up to 8 positions of the grid next to (r, c)
AliveNeighbours(g, r, c) ==
    Cardinality({q \in (1..Rows(g)) \X (1..Cols(g)) :
                    /\ q # <<r, c>>
                    /\ Abs(q[1] - r) <= 1
                    /\ Abs(q[2] - c) <= 1
                    /\ g[q[1]][q[2]] = 1})

\* C1: update gives a grid of the input's shape in which a cell is 1 exactly
\* when 3 of its neighbours inside the input grid are alive, or 2 are and the
\* cell itself is alive in the input, and 0 otherwise; positions outside the
\* grid count as dead, and every cell is computed from the input grid.
C1_UpdateRule ==
    (phase = "returned" /\ fn = "update") =>
        LET G == args.soup
        IN  /\ ret.ok
            /\ Shape(ret.val) = Shape(G)
            /\ \A r \in 1..Rows(G) : \A c \in 1..Cols(G) :
                 ret.val[r][c] =
                    IF \/ AliveNeighbours(G, r, c) = 3
                       \/ AliveNeighbours(G, r, c) = 2 /\ G[r][c] = 1
                    THEN 1 ELSE 0

\* a 3x3 grid whose centre survives on two neighbours while a dead corner
\* with two alive neighbours stays dead
C1_Witness ==
    /\ phase = "returned" /\ fn = "update"
    /\ Shape(args.soup) = <<3, 3>>
    /\ args.soup[2][2] = 1 /\ AliveNeighbours(args.soup, 2, 2) = 2
    /\ ret.val[2][2] = 1
    /\ args.soup[1][1] = 0 /\ AliveNeighbours(args.soup, 1, 1) = 2
    /\ ret.val[1][1] = 0

\* C2: a simulation started with frames = N holds at most N sums at any
\* time and exactly N once it has stopped (no call after the N-th draws).
C2_ExactlyNFrames ==
    phase \in SimPhases =>
        /\ Len(second_order_changes) <= frames
        /\ phase = "stopped" => Len(second_order_changes) = frames

C4_CellsBinary ==
    /\ phase \in SimPhases =>
         /\ Binary(soup)
         /\ Binary(first_order_changes(soup, update(soup)))
         /\ Binary(second_order_matrix(soup, update(soup)))
    /\ (phase = "returned" /\ fn \in {"create_random_soup", "update"} /\ ret.ok) =>
         Binary(ret.val)
    /\ (phase = "returned" /\ fn = "calculate_second_order_changes" /\ ret.ok) =>
         /\ Binary(first_order_changes(args.soup, args.updated_soup))
         /\ Binary(second_order_matrix(args.soup, args.updated_soup))

\* a salt_and_pepper grid in which all three categories can be drawn
C4_Witness ==
    /\ phase = "returned" /\ fn = "create_random_soup"
    /\ args.noise_type = "salt_and_pepper"
    /\ args.p = One \div 2 /\ args.salt_vs_pepper = One \div 2
    /\ args.size = <<2, 2>>
    /\ ret.ok
    /\ ret.val[1][1] = 0 /\ ret.val[2][2] = 1

OutOfDomain(a) ==
    \/ a.p < 0 \/ a.p > One
    \/ a.std <= 0
    \/ a.salt_vs_pepper < 0 \/ a.salt_vs_pepper > One

\* C5: create_random_soup raises, and returns no grid, whenever p is outside
\* [0, 1], std is not > 0 or salt_vs_pepper is outside [0, 1], whatever the
\* noise type.
C5_InvalidParameterRaises ==
    (phase = "returned" /\ fn = "create_random_soup" /\ OutOfDomain(args)) => ~ret.ok

\* C6: calculate_second_order_changes raises, and returns no count, whenever
\* its two grids differ in shape.
C6_ShapeMismatchRaises ==
    (/\ phase = "returned" /\ fn = "calculate_second_order_changes"
     /\ Shape(args.soup) # Shape(args.updated_soup)) => ~ret.ok

\* C7: the i-th sum of the list is the metric between the (i-1)-th and the
\* i-th successor of the first grid, raised to 1 when it is 0, so every sum
\* is >= 1; and the metric of a grid with itself is 0.
C7_ClampedMetric ==
    /\ phase \in SimPhases =>
         \A i \in 1..Len(second_order_changes) :
            LET m == calculate_second_order_changes(IterUpdate(soup0, i - 1),
                                                    IterUpdate(soup0, i))
            IN  /\ m.ok
                /\ second_order_changes[i] >= 1
                /\ second_order_changes[i] = (IF m.val = 0 THEN 1 ELSE m.val)
    /\ (/\ phase = "returned" /\ fn = "calculate_second_order_changes"
        /\ args.soup = args.updated_soup) => (ret.ok /\ ret.val = 0)

\* a frame whose metric is 0 (the grid did not change) is stored as 1, next
\* to a frame whose metric is larger
C7_Witness ==
    /\ phase \in SimPhases
    /\ Len(second_order_changes) >= 2
    /\ second_order_changes[1] > 1
    /\ second_order_changes[2] = 1
    /\ soup = IterUpdate(soup0, 1)
    /\ calculate_second_order_changes(soup, soup).val = 0

\* C8: the list of sums is as long as the number of frames taken from the
\* frame sequence, which never exceeds frames, and the grid is the first
\* grid updated that many times.
C8_HistoryFollowsFrameIndex ==
    phase \in SimPhases =>
        /\ Len(second_order_changes) = frame_seq
        /\ frame_seq <= frames
        /\ Len(second_order_changes) <= frames
        /\ soup = IterUpdate(soup0, frame_seq)

\* C9: once the grid of the simulation is all dead it stays all dead.
C9_AllDeadStays == [][(phase \in SimPhases /\ AllDead(soup)) => AllDead(soup')]_vars

\* a grid that died out and was updated again
C9_Witness ==
    /\ phase \in SimPhases
    /\ ~AllDead(soup0)
    /\ Shape(soup0) = <<3, 3>>
    /\ Len(second_order_changes) >= 2
    /\ AllDead(IterUpdate(soup0, 1))
    /\ AllDead(soup)

\* C10: a category of weight zero is never drawn: uniform noise with p = 0
\* is all zeros and with p = 1 all ones; salt_and_pepper noise with p = 1 is
\* all ones for every salt_vs_pepper in [0, 1], is all ones when the pepper
\* weight is zero, and all zeros when only the pepper weight is not.
C10_ZeroWeightNeverDrawn ==
    (phase = "returned" /\ fn = "create_random_soup") =>
        /\ (args.noise_type = "uniform" /\ args.p = 0) =>
              (ret.ok /\ ret.val = Full(args.size, 0))
        /\ (args.noise_type = "uniform" /\ args.p = One) =>
              (ret.ok /\ ret.val = Full(args.size, 1))
        /\ (/\ args.noise_type = "salt_and_pepper" /\ args.p = One
            /\ args.salt_vs_pepper \in 0..One) =>
              (ret.ok /\ ret.val = Full(args.size, 1))
        /\ (/\ args.noise_type = "salt_and_pepper" /\ args.p \in 0..One
            /\ args.salt_vs_pepper = 0) =>
              (ret.ok /\ ret.val = Full(args.size, 1))
        /\ (/\ args.noise_type = "salt_and_pepper" /\ args.p = 0
            /\ args.salt_vs_pepper = One) =>
              (ret.ok /\ ret.val = Full(args.size, 0))

\* salt_and_pepper with p = 1 on a 2x2 grid
C10_Witness ==
    /\ phase = "returned" /\ fn = "create_random_soup"
    /\ args.noise_type = "salt_and_pepper"
    /\ args.p = One /\ args.salt_vs_pepper = One \div 2
    /\ args.size = <<2, 2>>
    /\ ret.ok /\ ret.val = Full(args.size, 1)

====
